---- MODULE Spec2Model ----
(***************************************************************************)
(* The directory-backed (LDAP) authentication provider of                  *)
(* backend/authentication/providers/ldap/ldap.go, as a state machine.      *)
(*                                                                         *)
(* A call of Authenticate or Refresh runs its sub-operations getDN,        *)
(* validatePassword and getGroups one after the other; every blocking      *)
(* directory request of a sub-operation (DialURL, StartTLS, Bind, Search)  *)
(* and its return (the deferred Close plus the caller's error check) is    *)
(* one step.  The directory server is the environment: its entries,        *)
(* passwords and group memberships change between the steps, and every     *)
(* request may fail.                                                       *)
(***************************************************************************)
EXTENDS Integers, Sequences, FiniteSets, TLC

\* ---------------------------------------------------------------- bounds
\* Number of user entries of the directory that carry bob's username.
MaxDup == 2
\* Number of group entries of the directory.
NumGroups == 2
\* The longest list of resources, names, verbs or subjects evaluated, and
\* the longest entry of a verb list that is split.
MaxList == 2
MaxStr == 3

\* ------------------------------------------------------------- constants
\* const Type = "ldap"
Type == "ldap"
\* const Type = "allowall", of the allow-all provider
AllowAllType == "allowall"
\* Mutant of AllowAllGroups: the user is given no group.
AllowAllNoGroups == <<>>

\* Groups: []string{"cluster-admins"}, of the allow-all provider's user
AllowAllGroups == <<"cluster-admins">>

\* A nil error.
NoErr == "nil"
\* errors.New("User does not exist or too many entries returned")
ErrUser == "User does not exist or too many entries returned"
\* The errors the go-ldap client hands back, by the request that failed.
DialErrs == {"dial tcp: i/o timeout"}
TLSErrs == {"LDAP Result Code 52: Unavailable (StartTLS)"}
ErrInvalidCredentials == "LDAP Result Code 49: Invalid Credentials"
ErrUnwilling == "LDAP Result Code 53: Unwilling To Perform (account disabled)"
ErrNetwork == "LDAP Result Code 200: Network Error"
SearchErrs == {"LDAP Result Code 32: No Such Object"}
\* What jwt.NewClaims fails with.
ClaimsErrs == {"jwt: cannot create claims"}

\* Usernames are strings, kept as sequences of characters so that the search
\* filter can be evaluated on them.
alice == <<"a">>
bob == <<"b">>
Usernames == {alice, bob}
Passwords == {"pw1", "pw2"}

\* A user entry is named by its DN, <<username attribute, serial>>.
AllDNs == {<<alice, 1>>} \cup {<<bob, i>> : i \in 1..MaxDup}
\* The entries the directory administrator adds, removes and edits.
MutableDNs == {<<alice, 1>>}
NoDN == <<>>
\* The value of the username attribute (p.UserAttribute) of a user entry.
Uid(d) == d[1]

GroupEntries == 1..NumGroups
\* The value of the group-name attribute (p.GroupAttribute) of a group entry.
GroupNameOf(g) == IF g % 2 = 1 THEN "admins" ELSE "devs"

\* The group lists a presented (old) claims value may carry.
PresentedGroups == {<<>>, <<"stale">>}

Calls == {1}

VARIABLES
  p,       \* the Provider's configuration: [StartTLS]
  dir,     \* the directory: [users, password, members]
  call,    \* call[c]: the state of the call in slot c; its field found is
           \* the group entries the user was in when getGroups searched
  prev,    \* what the caller saw of the last finished call
  rbac     \* the last evaluation of a function of the policy rule
           \* matcher: [fn, its arguments, out]

vars == <<p, dir, call, prev, rbac>>

\* ------------------------------------------------------------- helpers
RECURSIVE Perms(_)
\* Every order the server may return the entries of set S in.
Perms(S) ==
  IF S = {} THEN {<<>>}
  ELSE UNION {{<<x>> \o q : q \in Perms(S \ {x})} : x \in S}

RECURSIVE GlobMatch(_, _)
\* An LDAP equality/substring assertion: '*' in the asserted value stands for
\* any run of characters, every other character for itself.
GlobMatch(pat, val) ==
  IF pat = <<>> THEN val = <<>>
  ELSE IF Head(pat) = "*"
    THEN \/ GlobMatch(Tail(pat), val)
         \/ val # <<>> /\ GlobMatch(pat, Tail(val))
    ELSE val # <<>> /\ Head(pat) = Head(val) /\ GlobMatch(Tail(pat), Tail(val))

\* fmt.Sprintf("(&(objectClass=%s)(%s=%s))", p.UserClass, p.UserAttribute,
\* username): the entries of the user subtree the filter selects.
UserFilter(d, username) == {e \in d.users : GlobMatch(username, Uid(e))}

\* Mutant of GroupFilter: the filter selects by object class alone.
GroupFilterOfAnyUser(d, userdn) == GroupEntries

\* fmt.Sprintf("(&(objectClass=%s)(%s=%s))", p.GroupClass,
\* p.GroupUserDNAttribute, userdn): the group entries the filter selects.
GroupFilter(d, userdn) == {g \in GroupEntries : userdn \in d.members[g]}

\* A nil *corev2.Claims.
NilClaims ==
  [isNil |-> TRUE, username |-> <<>>, groups |-> <<>>, disabled |-> FALSE,
   providerID |-> "", userID |-> <<>>]

\* jwt.NewClaims(user) for user = {Username, Groups, Disabled: false}, with
\* claims.Provider = {ProviderID: p.Name(), UserID: username} set.
MakeClaims(username, groups) ==
  [isNil |-> FALSE, username |-> username, groups |-> groups,
   disabled |-> FALSE, providerID |-> Type, userID |-> username]

NoResult == [claims |-> NilClaims, err |-> NoErr, panic |-> FALSE]

\* Where a call failed: in sub-operation sub, at request `at` ("count" is
\* getDN's check of len(sr.Entries)), n entries having been returned.
NoFail == [sub |-> "none", at |-> "none", n |-> 0]

IdleCall ==
  [provider |-> Type, op |-> "none", username |-> <<>>, password |-> "", presented |-> <<>>,
   sub |-> "none", pc |-> "idle", conns |-> <<>>, l |-> 0, log |-> <<>>,
   err |-> NoErr, dn |-> NoDN, sr |-> <<>>, found |-> {}, groups |-> <<>>,
   fail |-> NoFail, result |-> NoResult]

\* What a caller sees of a result: whether the call panicked, whether it
\* got claims, and the error.
Observed(r) == [panic |-> r.panic, claims |-> ~r.claims.isNil, err |-> r.err]

NoPrev ==
  [op |-> "none", username |-> <<>>, password |-> "", fail |-> NoFail,
   saw |-> Observed(NoResult)]

\* Mutant of Event: the connection is a variable that the calls share, and
\* the request goes out on the connection that the first call holds.
EventOnSharedConn(c, ev, who, e, n) ==
  [sub |-> call[c].sub, conn |-> call[1].l, ev |-> ev, who |-> who,
   err |-> e, n |-> n]

\* An entry of a call's log: request ev of sub-operation sub on the call's
\* connection number conn, bound as who ("" when ev is no bind), answered
\* with error e (NoErr: it succeeded) and, for a search, n entries.
Event(c, ev, who, e, n) ==
  [sub |-> call[c].sub, conn |-> call[c].l, ev |-> ev, who |-> who,
   err |-> e, n |-> n]

\* No function of the policy rule matcher has been evaluated.
NoEval == [fn |-> "none"]

\* ---------------------------------------------------------------- Init
Init ==
  /\ p \in [StartTLS : BOOLEAN]
  /\ dir = [users |-> AllDNs,
            password |-> [d \in AllDNs |-> "pw1"],
            members |-> [g \in GroupEntries |-> {}]]
  /\ call = [c \in Calls |-> IdleCall]
  /\ prev = NoPrev
  /\ rbac = NoEval

\* ------------------------------------------------------- the directory
\* The administrator removes a user entry.
RemoveUser(d) ==
  /\ d \in dir.users
  /\ dir' = [dir EXCEPT !.users = @ \ {d}]
  /\ UNCHANGED <<rbac, p, call, prev>>

\* The administrator adds a user entry.
AddUser(d) ==
  /\ d \notin dir.users
  /\ dir' = [dir EXCEPT !.users = @ \cup {d}]
  /\ UNCHANGED <<rbac, p, call, prev>>

\* The user's directory password changes.
ChangePassword(d, pw) ==
  /\ dir.password[d] # pw
  /\ dir' = [dir EXCEPT !.password[d] = pw]
  /\ UNCHANGED <<rbac, p, call, prev>>

\* The administrator adds the user to a group.
JoinGroup(d, g) ==
  /\ d \notin dir.members[g]
  /\ dir' = [dir EXCEPT !.members[g] = @ \cup {d}]
  /\ UNCHANGED <<rbac, p, call, prev>>

\* The administrator removes the user from a group.
LeaveGroup(d, g) ==
  /\ d \in dir.members[g]
  /\ dir' = [dir EXCEPT !.members[g] = @ \ {d}]
  /\ UNCHANGED <<rbac, p, call, prev>>

\* ------------------------------------------------------------ the calls
\* What the caller saw of the call that occupied slot c.
Digest(c) ==
  IF call[c].pc = "done"
    THEN [op |-> call[c].op, username |-> call[c].username,
          password |-> call[c].password, fail |-> call[c].fail,
          saw |-> Observed(call[c].result)]
    ELSE prev

\* The first sub-operation of both Authenticate and Refresh is getDN.
StartCall(c, op, username, password, presented) ==
  /\ call[c].pc \in {"idle", "done"}
  /\ prev' = Digest(c)
  /\ call' = [call EXCEPT ![c] =
       [IdleCall EXCEPT !.op = op, !.username = username,
                        !.password = password, !.presented = presented,
                        !.sub = "getDN", !.pc = "dial"]]
  /\ UNCHANGED <<rbac, p, dir>>

\* Authenticate(ctx, username, password) is called.
Authenticate(c, username, password) ==
  StartCall(c, "Authenticate", username, password, <<>>)

\* Refresh(ctx, claims) is called, claims.Provider.UserID = userID.
Refresh(c, userID, presented) ==
  StartCall(c, "Refresh", userID, "", presented)

\* The sub-operation's request ev fails with error e: `return "", err`, on
\* which the deferred Close runs.
Failing(c, ev, who, e) ==
  [call EXCEPT ![c].err = e, ![c].pc = "return",
               ![c].fail = [sub |-> call[c].sub, at |-> ev, n |-> 0],
               ![c].log = Append(@, Event(c, ev, who, e, 0))]

\* Mutant of AfterDial: the TLS upgrade is left out.
AfterDialWithoutTLS(cfg) == "bind"

\* The request that follows a successful DialURL: StartTLS when the
\* provider is configured with it, the bind otherwise.
AfterDial(cfg) == IF cfg.StartTLS THEN "starttls" ELSE "bind"

\* l, err := ldap.DialURL(p.URL, ldap.DialWithDialer(...)); defer l.Close()
Dial(c) ==
  /\ call[c].pc = "dial"
  /\ \/ \E e \in DialErrs : call' = Failing(c, "dial", "", e)
     \/ call' = [call EXCEPT
                   ![c].conns = Append(@, "Connected"),
                   ![c].l = Len(call[c].conns) + 1,
                   ![c].pc = AfterDial(p),
                   ![c].log = Append(@,
                      [Event(c, "dial", "", NoErr, 0)
                         EXCEPT !.conn = Len(call[c].conns) + 1])]
  /\ UNCHANGED <<rbac, p, dir, prev>>

\* if p.StartTLS { l.StartTLS(&tls.Config{InsecureSkipVerify: true}) }
StartTLS(c) ==
  /\ call[c].pc = "starttls"
  /\ \/ \E e \in TLSErrs : call' = Failing(c, "starttls", "", e)
     \/ call' = [call EXCEPT
                   ![c].conns[call[c].l] = "Encrypted",
                   ![c].pc = "bind",
                   ![c].log = Append(@, Event(c, "starttls", "", NoErr, 0))]
  /\ UNCHANGED <<rbac, p, dir, prev>>

\* What the directory answers to a simple bind as the service account
\* (p.BindUsername, p.BindPassword).
ServiceBindAnswers == {NoErr, ErrInvalidCredentials, ErrNetwork}

\* What the directory answers to a simple bind as dn with password pw.
UserBindAnswers(d, dn, pw) ==
  {ErrNetwork, ErrUnwilling}
    \cup (IF dn \in d.users /\ d.password[dn] = pw
            THEN {NoErr} ELSE {ErrInvalidCredentials})

\* Mutant of BindIdentity: getGroups binds as the user it looks up.
BindIdentityOfGroupsIsUser(sub) == IF sub = "getDN" THEN "service" ELSE "user"

\* Who a sub-operation binds as: validatePassword as the user, the two
\* searches as the service account.
BindIdentity(sub) == IF sub = "validatePassword" THEN "user" ELSE "service"

\* The position after a successful bind.
AfterBind(sub) == IF sub = "validatePassword" THEN "return" ELSE "search"

\* l.Bind(p.BindUsername, p.BindPassword) / l.Bind(dn, password)
Bind(c) ==
  /\ call[c].pc = "bind"
  /\ LET who == BindIdentity(call[c].sub)
         answers == IF who = "user"
                      THEN UserBindAnswers(dir, call[c].dn, call[c].password)
                      ELSE ServiceBindAnswers
     IN \E e \in answers :
          call' = IF e # NoErr
                    THEN Failing(c, "bind", who, e)
                    ELSE [call EXCEPT
                            ![c].conns[call[c].l] = "Bound",
                            ![c].pc = AfterBind(call[c].sub),
                            ![c].log = Append(@, Event(c, "bind", who, NoErr, 0))]
  /\ UNCHANGED <<rbac, p, dir, prev>>

\* getDN after l.Search: exactly one entry must have come back.
DNOf(entries) == IF Len(entries) # 1 THEN NoDN ELSE entries[1]
\* Mutant of CountErr: only an empty result is refused.
CountErrOnlyEmpty(entries) == IF Len(entries) < 1 THEN ErrUser ELSE NoErr
CountErr(entries) == IF Len(entries) # 1 THEN ErrUser ELSE NoErr

\* Mutant of GroupNames: the loop starts at the second entry.
GroupNamesSkippingFirst(entries) ==
  [i \in 1..(Len(entries) - 1) |-> GroupNameOf(entries[i + 1])]

\* getGroups after l.Search: entry.GetAttributeValue(p.GroupAttribute) of
\* every entry, in the order of the entries.
GroupNames(entries) == [i \in 1..Len(entries) |-> GroupNameOf(entries[i])]

\* sr, err := l.Search(searchRequest) of getDN, and the len(sr.Entries) check.
SearchUser(c) ==
  /\ call[c].pc = "search"
  /\ call[c].sub = "getDN"
  /\ \/ \E e \in SearchErrs : call' = Failing(c, "search", "", e)
     \/ \E sr \in Perms(UserFilter(dir, call[c].username)) :
          call' = [call EXCEPT
                     ![c].conns[call[c].l] = "SearchIssued",
                     ![c].sr = sr,
                     ![c].found = {},
                     ![c].dn = DNOf(sr),
                     ![c].err = CountErr(sr),
                     ![c].fail = IF CountErr(sr) # NoErr
                                   THEN [sub |-> "getDN", at |-> "count",
                                         n |-> Len(sr)]
                                   ELSE @,
                     ![c].pc = "return",
                     ![c].log = Append(@,
                        Event(c, "search", "", NoErr, Len(sr)))]
  /\ UNCHANGED <<rbac, p, dir, prev>>

\* sr, err := l.Search(searchRequest) of getGroups, and the loop over
\* sr.Entries.
SearchGroups(c) ==
  /\ call[c].pc = "search"
  /\ call[c].sub = "getGroups"
  /\ \/ \E e \in SearchErrs : call' = Failing(c, "search", "", e)
     \/ \E sr \in Perms(GroupFilter(dir, call[c].dn)) :
          call' = [call EXCEPT
                     ![c].conns[call[c].l] = "SearchIssued",
                     ![c].sr = sr,
                     ![c].found =
                        {g \in GroupEntries : call[c].dn \in dir.members[g]},
                     ![c].groups = GroupNames(sr),
                     ![c].pc = "return",
                     ![c].log = Append(@,
                        Event(c, "search", "", NoErr, Len(sr)))]
  /\ UNCHANGED <<rbac, p, dir, prev>>

\* Mutant of NextSub: Refresh verifies a password like Authenticate does.
NextSubVerifiesOnRefresh(op, sub) ==
  IF sub = "getDN" THEN "validatePassword"
  ELSE IF sub = "validatePassword" THEN "getGroups"
  ELSE "claims"

\* The sub-operation that follows sub in the body of op.
NextSub(op, sub) ==
  IF sub = "getDN"
    THEN (IF op = "Authenticate" THEN "validatePassword" ELSE "getGroups")
  ELSE IF sub = "validatePassword" THEN "getGroups"
  ELSE "claims"

\* Mutant of Closing: the connection is closed on the success path only.
ClosingOnSuccessOnly(cl) ==
  IF cl.l = 0 \/ cl.err # NoErr THEN cl.conns
  ELSE [cl.conns EXCEPT ![cl.l] = "Closed"]

\* The connections of a call once the deferred l.Close() of its current
\* sub-operation has run (none is deferred when DialURL failed).
Closing(cl) ==
  IF cl.l = 0 THEN cl.conns ELSE [cl.conns EXCEPT ![cl.l] = "Closed"]

\* The sub-operation returns: the deferred l.Close() runs, and the caller
\* (Authenticate or Refresh) returns nil and the error, or goes on.
Return(c) ==
  /\ call[c].pc = "return"
  /\ LET closed == [call EXCEPT
                      ![c].conns = Closing(call[c]),
                      ![c].l = 0,
                      ![c].sr = <<>>,
                      ![c].log = IF call[c].l = 0 THEN @
                                 ELSE Append(@,
                                        Event(c, "close", "", NoErr, 0))]
     IN call' = IF call[c].err # NoErr
                  THEN [closed EXCEPT
                          ![c].pc = "done", ![c].sub = "none",
                          ![c].result = [claims |-> NilClaims,
                                         err |-> call[c].err,
                                         panic |-> FALSE]]
                  ELSE LET n == NextSub(call[c].op, call[c].sub)
                       IN [closed EXCEPT
                             ![c].sub = n,
                             ![c].pc = IF n = "claims" THEN "claims"
                                       ELSE "dial"]
  /\ UNCHANGED <<rbac, p, dir, prev>>

\* jwt.NewClaims(user): the claims, or nil and an error.
NewClaims(username, groups) ==
  {[claims |-> MakeClaims(username, groups), err |-> NoErr]}
    \cup {[claims |-> NilClaims, err |-> e] : e \in ClaimsErrs}

\* p.claims(username, groups): claims.Provider is assigned before err is
\* looked at, which dereferences the nil claims of a failed NewClaims.
BuildClaims(c) ==
  /\ call[c].provider = Type
  /\ call[c].pc = "claims"
  /\ \E r \in NewClaims(call[c].username, call[c].groups) :
       call' = [call EXCEPT
                  ![c].pc = "done", ![c].sub = "none",
                  ![c].fail = IF r.err # NoErr
                                THEN [sub |-> "claims", at |-> "NewClaims",
                                      n |-> 0]
                                ELSE @,
                  ![c].log = Append(@, Event(c, "NewClaims", "", r.err, 0)),
                  ![c].result = IF r.claims.isNil
                                  THEN [claims |-> NilClaims, err |-> NoErr,
                                        panic |-> TRUE]
                                  ELSE [claims |-> r.claims, err |-> r.err,
                                        panic |-> FALSE]]
  /\ UNCHANGED <<rbac, p, dir, prev>>

Next ==
  \/ \E d \in MutableDNs : RemoveUser(d)
  \/ \E d \in MutableDNs : AddUser(d)
  \/ \E d \in MutableDNs, pw \in Passwords : ChangePassword(d, pw)
  \/ \E d \in MutableDNs, g \in GroupEntries : JoinGroup(d, g)
  \/ \E d \in MutableDNs, g \in GroupEntries : LeaveGroup(d, g)
  \/ \E c \in Calls, u \in Usernames, pw \in Passwords : Authenticate(c, u, pw)
  \/ \E c \in Calls, u \in Usernames, g \in PresentedGroups : Refresh(c, u, g)
  \/ \E c \in Calls : Dial(c)
  \/ \E c \in Calls : StartTLS(c)
  \/ \E c \in Calls : Bind(c)
  \/ \E c \in Calls : SearchUser(c)
  \/ \E c \in Calls : SearchGroups(c)
  \/ \E c \in Calls : Return(c)
  \/ \E c \in Calls : BuildClaims(c)

Spec == Init /\ [][Next]_vars

\* ------------------------------------------------ the allow-all provider
\* Mutant of AllowAllUserID: the user id is left empty.
AllowAllUserIDEmpty(username) == <<>>

\* UserID: username, of the Provider the allow-all claims are given.
AllowAllUserID(username) == username

\* A call of the allow-all provider goes straight to p.claims(username).
AllowAllStart(c, op, username, password, presented) ==
  /\ call[c].pc \in {"idle", "done"}
  /\ prev' = Digest(c)
  /\ call' = [call EXCEPT ![c] =
       [IdleCall EXCEPT !.provider = AllowAllType, !.op = op,
                        !.username = username, !.password = password,
                        !.presented = presented,
                        !.sub = "claims", !.pc = "claims"]]
  /\ UNCHANGED <<rbac, p, dir>>

\* Authenticate(ctx, username, password) of the allow-all provider.
AllowAllAuthenticate(c, username, password) ==
  AllowAllStart(c, "Authenticate", username, password, <<>>)

\* Refresh(ctx, claims) of the allow-all provider:
\* p.claims(claims.Provider.UserID).
AllowAllRefresh(c, userID, presented) ==
  AllowAllStart(c, "Refresh", userID, "", presented)

\* p.claims(username) of the allow-all provider: the user is in
\* AllowAllGroups, and claims.Provider is assigned before err is looked at.
AllowAllClaims(c) ==
  /\ call[c].provider = AllowAllType
  /\ call[c].pc = "claims"
  /\ \E r \in NewClaims(call[c].username, AllowAllGroups) :
       call' = [call EXCEPT
                  ![c].pc = "done", ![c].sub = "none",
                  ![c].groups = AllowAllGroups,
                  ![c].fail = IF r.err # NoErr
                                THEN [sub |-> "claims", at |-> "NewClaims",
                                      n |-> 0]
                                ELSE @,
                  ![c].log = Append(@, Event(c, "NewClaims", "", r.err, 0)),
                  ![c].result =
                    IF r.claims.isNil
                      THEN [claims |-> NilClaims, err |-> NoErr,
                            panic |-> TRUE]
                      ELSE [claims |->
                              [r.claims EXCEPT
                                 !.providerID = AllowAllType,
                                 !.userID =
                                   AllowAllUserID(call[c].username)],
                            err |-> r.err, panic |-> FALSE]]
  /\ UNCHANGED <<rbac, p, dir, prev>>

\* The calls of both providers.
NextProviders ==
  \/ Next
  \/ \E c \in Calls, u \in Usernames, pw \in Passwords :
       AllowAllAuthenticate(c, u, pw)
  \/ \E c \in Calls, u \in Usernames, g \in PresentedGroups :
       AllowAllRefresh(c, u, g)
  \/ \E c \in Calls : AllowAllClaims(c)

SpecProviders == Init /\ [][NextProviders]_vars

\* ------------------------------------------- usernames that are patterns
\* Usernames that hold the wildcard of a search filter: "a*" and "*".
WildUsernames == {<<"a", "*">>, <<"*">>}

\* Authenticate is called with such usernames as well as with the plain
\* ones, while the user entry of alice goes and comes and the password of
\* alice changes.
NextWild ==
  \/ \E d \in MutableDNs : RemoveUser(d)
  \/ \E d \in MutableDNs : AddUser(d)
  \/ \E d \in MutableDNs, pw \in Passwords : ChangePassword(d, pw)
  \/ \E c \in Calls, u \in Usernames \cup WildUsernames,
        pw \in Passwords : Authenticate(c, u, pw)
  \/ \E c \in Calls : Dial(c)
  \/ \E c \in Calls : StartTLS(c)
  \/ \E c \in Calls : Bind(c)
  \/ \E c \in Calls : SearchUser(c)
  \/ \E c \in Calls : SearchGroups(c)
  \/ \E c \in Calls : Return(c)
  \/ \E c \in Calls : BuildClaims(c)

SpecWild == Init /\ [][NextWild]_vars

\* ------------------------------------------------------ concurrent calls
\* Two calls of the directory provider at a time.
ConcCalls == {1, 2}

\* Both slots are free; alice is in the first group of the directory.
InitConc ==
  /\ p \in [StartTLS : BOOLEAN]
  /\ dir = [users |-> AllDNs,
            password |-> [d \in AllDNs |-> "pw1"],
            members |-> [g \in GroupEntries |->
                           IF g = 1 THEN {<<alice, 1>>} ELSE {}]]
  /\ call = [c \in ConcCalls |-> IdleCall]
  /\ prev = NoPrev
  /\ rbac = NoEval

\* Each slot takes one call; the steps of the two calls interleave freely,
\* while the user entry of alice goes and comes.
NextConc ==
  \/ \E d \in MutableDNs : RemoveUser(d)
  \/ \E d \in MutableDNs : AddUser(d)
  \/ \E c \in ConcCalls, u \in Usernames, pw \in Passwords :
       call[c].pc = "idle" /\ Authenticate(c, u, pw)
  \/ \E c \in ConcCalls, u \in Usernames, g \in PresentedGroups :
       call[c].pc = "idle" /\ Refresh(c, u, g)
  \/ \E c \in ConcCalls : Dial(c)
  \/ \E c \in ConcCalls : StartTLS(c)
  \/ \E c \in ConcCalls : Bind(c)
  \/ \E c \in ConcCalls : SearchUser(c)
  \/ \E c \in ConcCalls : SearchGroups(c)
  \/ \E c \in ConcCalls : Return(c)
  \/ \E c \in ConcCalls : BuildClaims(c)

SpecConc == InitConc /\ [][NextConc]_vars

\* ------------------------------------------------ the policy rule matcher
\* const ResourceAll = "*" and const VerbAll = "*"
ResourceAll == "*"
VerbAll == "*"
\* The verbs a rule may name besides VerbAll.
CommonVerbs == {"get", "list", "create", "update", "delete"}
\* The error of a verb that is not allowed, and of a subject that is not.
ErrInvalidVerb == "InvalidVerb"
ErrInvalidSubject == "InvalidSubject"

\* The characters a subject's type and name may be made of.
NameChars ==
  {"a", "b", "c", "d", "e", "f", "g", "h", "i", "j", "k", "l", "m", "n",
   "o", "p", "q", "r", "s", "t", "u", "v", "w", "x", "y", "z",
   "0", "1", "2", "3", "4", "5", "6", "7", "8", "9", "_", ".", "-"}

\* The sequences over S of at most n elements.
SeqsUpTo(S, n) == UNION {[1..k -> S] : k \in 0..n}

\* The inputs the functions are evaluated on: resource types, resource
\* names and verbs as whole strings; the entries of a verb list to split
\* and the fields of a subject as sequences of characters.
ResourceInputs == {ResourceAll, "checks", "events", ""}
ResourceNameInputs == {"foo", "bar", ""}
VerbInputs == CommonVerbs \cup {VerbAll, "put"}
EntryInputs == SeqsUpTo({"g", ","}, MaxStr)
FieldInputs == {<<>>, <<"e">>, <<"^">>, <<"e", "^">>}
SubjectInputs == [Type : FieldInputs, Name : FieldInputs]

\* A Rule of the given resources, resource names and verbs.
Rule(resources, names, verbs) ==
  [Resources |-> resources, ResourceNames |-> names, Verbs |-> verbs]

\* Mutant of Matches: an empty list allows everything.
MatchesDefaultAllow(list, all, requested) ==
  list = <<>> \/ \E i \in 1..Len(list) : list[i] \in {all, requested}

\* The loop of ResourceMatches and of VerbMatches: true at the first entry
\* that is the wildcard or the requested string, false at the end.
RECURSIVE Matches(_, _, _)
Matches(list, all, requested) ==
  IF list = <<>> THEN FALSE
  ELSE IF Head(list) = all THEN TRUE
  ELSE IF Head(list) = requested THEN TRUE
  ELSE Matches(Tail(list), all, requested)

\* r.ResourceMatches(requestedResource)
ResourceMatches(r, requestedResource) ==
  Matches(r.Resources, ResourceAll, requestedResource)

\* r.VerbMatches(requestedVerb)
VerbMatches(r, requestedVerb) == Matches(r.Verbs, VerbAll, requestedVerb)

\* Mutant of ResourceNameMatches: an empty list of names allows no name.
ResourceNameMatchesDefaultDeny(r, requestedResourceName) ==
  \E i \in 1..Len(r.ResourceNames) :
    r.ResourceNames[i] = requestedResourceName

RECURSIVE NameListed(_, _)
NameListed(names, requested) ==
  IF names = <<>> THEN FALSE
  ELSE IF Head(names) = requested THEN TRUE
  ELSE NameListed(Tail(names), requested)

\* r.ResourceNameMatches(requestedResourceName)
ResourceNameMatches(r, requestedResourceName) ==
  IF Len(r.ResourceNames) = 0 THEN TRUE
  ELSE NameListed(r.ResourceNames, requestedResourceName)

\* Mutant of validateVerbs: nothing after a wildcard is looked at.
RECURSIVE validateVerbsUpToWildcard(_)
validateVerbsUpToWildcard(verbs) ==
  IF verbs = <<>> THEN NoErr
  ELSE IF Head(verbs) = VerbAll THEN NoErr
  ELSE IF Head(verbs) \in CommonVerbs
    THEN validateVerbsUpToWildcard(Tail(verbs))
  ELSE ErrInvalidVerb

\* validateVerbs(verbs)
RECURSIVE validateVerbs(_)
validateVerbs(verbs) ==
  IF verbs = <<>> THEN NoErr
  ELSE IF Head(verbs) = VerbAll \/ Head(verbs) \in CommonVerbs
    THEN validateVerbs(Tail(verbs))
  ELSE ErrInvalidVerb

\* The characters of s before its first comma, and those after it.
UpToComma(s) ==
  SubSeq(s, 1, (CHOOSE k \in 1..Len(s) :
                  s[k] = "," /\ \A j \in 1..(k - 1) : s[j] # ",") - 1)
AfterComma(s) == SubSeq(s, Len(UpToComma(s)) + 2, Len(s))

\* Mutant of SplitString: the string is cut at its first comma only.
SplitStringOnce(s) ==
  IF \A i \in 1..Len(s) : s[i] # "," THEN <<s>>
  ELSE <<UpToComma(s), AfterComma(s)>>

\* strings.Split(s, ","), s a sequence of characters.
RECURSIVE SplitString(_)
SplitString(s) ==
  IF \A i \in 1..Len(s) : s[i] # "," THEN <<s>>
  ELSE <<UpToComma(s)>> \o SplitString(AfterComma(s))

\* split(list): the pieces of every entry, in the order of the entries.
RECURSIVE split(_)
split(list) ==
  IF list = <<>> THEN <<>>
  ELSE SplitString(Head(list)) \o split(Tail(list))

\* Whether a type or a name is of the allowed characters, and not empty.
MatchesPattern(s) == s # <<>> /\ \A i \in 1..Len(s) : s[i] \in NameChars

\* Mutant of ValidateSubjects: only the names are looked at.
ValidateSubjectsByName(subjects) ==
  IF \A i \in 1..Len(subjects) : MatchesPattern(subjects[i].Name)
    THEN NoErr ELSE ErrInvalidSubject

\* ValidateSubjects(subjects)
RECURSIVE ValidateSubjects(_)
ValidateSubjects(subjects) ==
  IF subjects = <<>> THEN NoErr
  ELSE IF ~MatchesPattern(Head(subjects).Type) THEN ErrInvalidSubject
  ELSE IF ~MatchesPattern(Head(subjects).Name) THEN ErrInvalidSubject
  ELSE ValidateSubjects(Tail(subjects))

\* The record of an evaluation: the function, its list argument, its
\* requested string ("" when it has none) and what it returned.
Evaluation(fn, in, requested, out) ==
  [fn |-> fn, in |-> in, requested |-> requested, out |-> out]

\* The functions are pure: one is evaluated on some input, and nothing but
\* the record of that evaluation changes.
EvalResourceMatches ==
  /\ rbac = NoEval
  /\ \E l \in SeqsUpTo(ResourceInputs, MaxList), x \in ResourceInputs :
       rbac' = Evaluation("ResourceMatches", l, x,
                          ResourceMatches(Rule(l, <<>>, <<>>), x))
  /\ UNCHANGED <<p, dir, call, prev>>

EvalResourceNameMatches ==
  /\ rbac = NoEval
  /\ \E l \in SeqsUpTo(ResourceNameInputs, MaxList),
        x \in ResourceNameInputs :
       rbac' = Evaluation("ResourceNameMatches", l, x,
                          ResourceNameMatches(Rule(<<>>, l, <<>>), x))
  /\ UNCHANGED <<p, dir, call, prev>>

EvalVerbMatches ==
  /\ rbac = NoEval
  /\ \E l \in SeqsUpTo(VerbInputs, MaxList), x \in VerbInputs :
       rbac' = Evaluation("VerbMatches", l, x,
                          VerbMatches(Rule(<<>>, <<>>, l), x))
  /\ UNCHANGED <<p, dir, call, prev>>

EvalValidateVerbs ==
  /\ rbac = NoEval
  /\ \E l \in SeqsUpTo(VerbInputs, MaxList) :
       rbac' = Evaluation("validateVerbs", l, "", validateVerbs(l))
  /\ UNCHANGED <<p, dir, call, prev>>

EvalSplit ==
  /\ rbac = NoEval
  /\ \E l \in SeqsUpTo(EntryInputs, MaxList) :
       rbac' = Evaluation("split", l, "", split(l))
  /\ UNCHANGED <<p, dir, call, prev>>

EvalValidateSubjects ==
  /\ rbac = NoEval
  /\ \E l \in SeqsUpTo(SubjectInputs, MaxList) :
       rbac' = Evaluation("ValidateSubjects", l, "", ValidateSubjects(l))
  /\ UNCHANGED <<p, dir, call, prev>>

NextRules ==
  \/ EvalResourceMatches
  \/ EvalResourceNameMatches
  \/ EvalVerbMatches
  \/ EvalValidateVerbs
  \/ EvalSplit
  \/ EvalValidateSubjects

SpecRules == Init /\ [][NextRules]_vars

\* ------------------------------------------------------------ the claims
Finished(c) == call[c].pc = "done"

\* The caller got claims and no error.
Succeeded(r) == ~r.panic /\ r.err = NoErr /\ ~r.claims.isNil

\* The indices of the events of log that satisfy Q.
Indices(log, Q(_)) == {i \in 1..Len(log) : Q(log[i])}

RECURSIVE SubTrace(_)
\* The sub-operations of a log in the order they were started.
SubTrace(log) ==
  IF Len(log) <= 1 THEN [i \in 1..Len(log) |-> log[i].sub]
  ELSE LET rest == SubTrace(Tail(log))
       IN IF Head(log).sub = Head(rest) THEN rest ELSE <<Head(log).sub>> \o rest

IsPrefix(s, t) == Len(s) <= Len(t) /\ \A i \in 1..Len(s) : s[i] = t[i]

\* The error of the first failed request of a log (NoErr: none failed).
FirstErr(log) ==
  LET bad == Indices(log, LAMBDA e : e.err # NoErr)
  IN IF bad = {} THEN NoErr
     ELSE log[CHOOSE i \in bad : \A j \in bad : i <= j].err

\* The error of the step a call failed at.
FailErr(cl) == IF cl.fail.at = "count" THEN ErrUser ELSE FirstErr(cl.log)

IsSearchOK(sub, e) == e.sub = sub /\ e.ev = "search" /\ e.err = NoErr
\* getDN found exactly one entry, the user bind was accepted, the group
\* search was answered, NewClaims returned claims.
ResolvedDN(log) ==
  Indices(log, LAMBDA e : IsSearchOK("getDN", e) /\ e.n = 1) # {}
VerifiedPassword(log) ==
  Indices(log, LAMBDA e : e.sub = "validatePassword" /\ e.ev = "bind"
                            /\ e.who = "user" /\ e.err = NoErr) # {}
ResolvedGroups(log) ==
  Indices(log, LAMBDA e : IsSearchOK("getGroups", e)) # {}
BuiltClaims(log) ==
  Indices(log, LAMBDA e : e.ev = "NewClaims" /\ e.err = NoErr) # {}

AuthOrder == <<"getDN", "validatePassword", "getGroups", "claims">>
RefreshOrder == <<"getDN", "getGroups", "claims">>

\* The steps of Authenticate run in the order getDN, validatePassword,
\* getGroups, claims builder; a directory step that fails ends the call with
\* that step's error and no claims, no later step having started; claims
\* are returned only when the three directory steps succeeded.
AuthenticateDirectorySteps ==
  \A c \in Calls : call[c].op = "Authenticate" =>
    /\ IsPrefix(SubTrace(call[c].log), AuthOrder)
    /\ call[c].fail.sub \notin {"none", "claims"} =>
         /\ call[c].log[Len(call[c].log)].sub = call[c].fail.sub
         /\ Finished(c) =>
              call[c].result = [claims |-> NilClaims, err |-> FailErr(call[c]),
                                panic |-> FALSE]
    /\ ~call[c].result.claims.isNil =>
         /\ ResolvedDN(call[c].log)
         /\ VerifiedPassword(call[c].log)
         /\ ResolvedGroups(call[c].log)

\* C1: Authenticate runs getDN, validatePassword, getGroups and the claims
\* builder strictly in that order; the first of these four steps that fails
\* ends the call with that step's error and no claims, and no later step is
\* started; claims are returned only when all three directory steps
\* succeeded.
C1_AuthenticateShortCircuits ==
  /\ AuthenticateDirectorySteps
  /\ \A c \in Calls : (call[c].op = "Authenticate" /\ Finished(c)) =>
       /\ ~call[c].result.panic
       /\ call[c].fail # NoFail =>
            /\ call[c].result.claims.isNil
            /\ call[c].result.err = FailErr(call[c])
            /\ call[c].result.err # NoErr

\* ---- C2
\* Refresh sent no bind as the user.
NoUserBind(c) ==
  \A i \in 1..Len(call[c].log) :
    call[c].log[i].ev = "bind" => call[c].log[i].who = "service"

\* C2 as stated: Refresh never binds as the user, every bind it sends being a
\* service-account bind, and it succeeds whenever getDN and getGroups
\* succeed.
C2_RefreshSucceedsAfterDirectorySteps ==
  \A c \in Calls : call[c].op = "Refresh" =>
    /\ NoUserBind(c)
    /\ (Finished(c) /\ ResolvedDN(call[c].log) /\ ResolvedGroups(call[c].log))
         => Succeeded(call[c].result)

\* C2, amended: Refresh never binds as the user, every bind it sends being a
\* service-account bind, its steps being getDN, getGroups and the claims
\* builder in that order; it succeeds whenever getDN, getGroups and
\* jwt.NewClaims succeed, whatever the user's directory password is by then.
C2_RefreshNeverVerifiesPassword ==
  \A c \in Calls : call[c].op = "Refresh" =>
    /\ NoUserBind(c)
    /\ IsPrefix(SubTrace(call[c].log), RefreshOrder)
    /\ (Finished(c) /\ ResolvedDN(call[c].log) /\ ResolvedGroups(call[c].log)
          /\ BuiltClaims(call[c].log))
         => Succeeded(call[c].result)

\* Refresh succeeded for a user who had authenticated with a password that
\* is no longer the directory's.
C2_Witness ==
  \E c \in Calls :
    /\ call[c].op = "Refresh" /\ Finished(c) /\ Succeeded(call[c].result)
    /\ prev.op = "Authenticate" /\ prev.saw.claims /\ prev.saw.err = NoErr
    /\ prev.username = call[c].username
    /\ \A d \in UserFilter(dir, call[c].username) :
         dir.password[d] # prev.password
    /\ UserFilter(dir, call[c].username) # {}

\* ---- C3
\* The last request of the call was a search that the directory answered.
Searched(cl) ==
  /\ Len(cl.log) > 0
  /\ cl.log[Len(cl.log)].ev = "search"
  /\ cl.log[Len(cl.log)].err = NoErr

\* C3: when getDN returns, it returns a DN iff its search returned exactly
\* one entry, and then that entry's DN and no error; for zero entries and
\* for two or more it returns no DN and the one error ErrUser.
C3_GetDNExactlyOne ==
  \A c \in Calls : (call[c].sub = "getDN" /\ call[c].pc = "return") =>
    /\ call[c].dn # NoDN <=> (Searched(call[c]) /\ Len(call[c].sr) = 1)
    /\ (Searched(call[c]) /\ Len(call[c].sr) = 1) =>
         (call[c].dn = call[c].sr[1] /\ call[c].err = NoErr)
    /\ (Searched(call[c]) /\ Len(call[c].sr) # 1) =>
         (call[c].dn = NoDN /\ call[c].err = ErrUser)
    /\ ~Searched(call[c]) => call[c].err # NoErr

\* getDN returns after a search that matched two or more entries.
C3_Witness ==
  \E c \in Calls :
    /\ call[c].sub = "getDN" /\ call[c].pc = "return"
    /\ Searched(call[c]) /\ Len(call[c].sr) >= 2
    /\ call[c].err = ErrUser

\* ---- C4
\* The call in slot c is a finished Authenticate whose bind as the user
\* failed, and so was the call before it.
BothFailedUserBind(c) ==
  /\ call[c].op = "Authenticate" /\ Finished(c)
  /\ call[c].fail.sub = "validatePassword" /\ call[c].fail.at = "bind"
  /\ prev.op = "Authenticate"
  /\ prev.fail.sub = "validatePassword" /\ prev.fail.at = "bind"

\* C4: Authenticate returns claims only when the bind as the user
\* succeeded, and any two Authenticate calls whose bind as the user failed,
\* for whatever cause, return the same result to the caller.
C4_UniformBindFailed ==
  \A c \in Calls :
    /\ (call[c].op = "Authenticate" /\ ~call[c].result.claims.isNil)
         => VerifiedPassword(call[c].log)
    /\ BothFailedUserBind(c) => Observed(call[c].result) = prev.saw

\* ---- C5
\* The earlier call failed because no entry carried the username.
MissingUser(f) == f.sub = "getDN" /\ f.at = "count" /\ f.n = 0
\* The call failed because the directory, which holds the user's entry,
\* refused the password for its DN.
WrongPassword(cl) ==
  /\ cl.fail.sub = "validatePassword" /\ cl.fail.at = "bind"
  /\ cl.result.err = ErrInvalidCredentials
  /\ cl.dn \in dir.users /\ dir.password[cl.dn] # cl.password

\* C5: two failed Authenticate calls with the same username and password,
\* one against a directory without an entry for the username and one
\* against a directory that has the entry but not that password, return the
\* same result to the caller.
C5_NoAccountEnumeration ==
  \A c \in Calls :
    ( /\ call[c].op = "Authenticate" /\ Finished(c)
      /\ prev.op = "Authenticate"
      /\ prev.username = call[c].username
      /\ prev.password = call[c].password
      /\ MissingUser(prev.fail)
      /\ WrongPassword(call[c]) )
    => Observed(call[c].result) = prev.saw

\* ---- C6
\* The call is inside a sub-operation that has dialled and not yet returned.
InSubOperation(cl) == cl.pc \in {"starttls", "bind", "search", "return"}

\* C6: the only connection of a call that is not closed is the one of the
\* sub-operation it is in; once a sub-operation has returned, and so when
\* Authenticate or Refresh has returned, every connection the call opened
\* is closed, every successful dial being matched by one close.
C6_ConnectionsReleased ==
  \A c \in Calls :
    /\ \A i \in 1..Len(call[c].conns) :
         i # call[c].l => call[c].conns[i] = "Closed"
    /\ ~InSubOperation(call[c]) =>
         /\ call[c].l = 0
         /\ Cardinality(Indices(call[c].log, LAMBDA e : e.ev = "close"))
              = Len(call[c].conns)
         /\ Cardinality(Indices(call[c].log,
                          LAMBDA e : e.ev = "dial" /\ e.err = NoErr))
              = Len(call[c].conns)

\* A call has returned after its second or third sub-operation failed on an
\* open connection.
C6_Witness ==
  \E c \in Calls :
    /\ Finished(c)
    /\ call[c].fail.at \in {"starttls", "bind", "search"}
    /\ Len(call[c].conns) >= 2
    /\ \A i \in 1..Len(call[c].conns) : call[c].conns[i] = "Closed"

\* ---- C7
\* Request i of the log was sent on a connection whose StartTLS had
\* succeeded before.
Encrypted(log, i) ==
  \E j \in 1..(i - 1) :
    /\ log[j].conn = log[i].conn
    /\ log[j].ev = "starttls" /\ log[j].err = NoErr

\* C7: with StartTLS configured, every bind of every sub-operation, as the
\* service account or as the user, is sent on a connection whose TLS upgrade
\* has succeeded, and a connection whose upgrade failed carries no bind.
C7_TLSBeforeCredentials ==
  p.StartTLS =>
    \A c \in Calls : \A i \in 1..Len(call[c].log) :
      LET log == call[c].log
      IN /\ log[i].ev = "bind" => Encrypted(log, i)
         /\ (log[i].ev = "starttls" /\ log[i].err # NoErr) =>
              \A k \in 1..Len(log) :
                log[k].conn = log[i].conn => log[k].ev # "bind"

\* With StartTLS configured, all three sub-operations of a call have bound.
C7_Witness ==
  /\ p.StartTLS
  /\ \E c \in Calls :
       \A sub \in {"getDN", "validatePassword", "getGroups"} :
         Indices(call[c].log, LAMBDA e : e.sub = sub /\ e.ev = "bind") # {}

\* ---- C8
\* A move of a connection from state a to state b along the chain
\* Connected -> (Encrypted, when StartTLS is configured) -> Bound ->
\* SearchIssued.
Forward(a, b) ==
  \/ a = "Connected" /\ b = "Encrypted" /\ p.StartTLS
  \/ a = "Connected" /\ b = "Bound" /\ ~p.StartTLS
  \/ a = "Encrypted" /\ b = "Bound"
  \/ a = "Bound" /\ b = "SearchIssued"

\* A connection of call c is closed from state a: at the end of the chain,
\* or on the failure of its sub-operation.
ClosedAtEnd(c, a) == a = "SearchIssued" \/ call[c].err # NoErr

\* The same, validatePassword closing after its bind, as it has no search.
ClosedAtItsEnd(c, a) ==
  \/ ClosedAtEnd(c, a)
  \/ a = "Bound" /\ call[c].sub = "validatePassword"

\* What a step does to the connections of call c: nothing, or a new call
\* starts with none, or one is dialled, or one moves forward or is closed.
ConnStep(c, MayClose(_, _)) ==
  LET old == call[c].conns
      new == call'[c].conns
  IN \/ new = old
     \/ new = <<>> /\ call[c].pc \in {"idle", "done"}
     \/ new = Append(old, "Connected")
     \/ /\ Len(new) = Len(old)
        /\ \A i \in 1..Len(old) :
             \/ new[i] = old[i]
             \/ Forward(old[i], new[i])
             \/ new[i] = "Closed" /\ old[i] # "Closed" /\ MayClose(c, old[i])

\* Searches go out only on a connection bound as the service account; after
\* a failed request nothing but the close follows; a sub-operation dials,
\* binds and searches at most once.
NoRetry(log) ==
  /\ \A i \in 1..Len(log) :
       /\ log[i].ev = "search" =>
            \E j \in 1..(i - 1) :
              /\ log[j].conn = log[i].conn /\ log[j].ev = "bind"
              /\ log[j].who = "service" /\ log[j].err = NoErr
       /\ log[i].err # NoErr =>
            \/ i = Len(log)
            \/ /\ i + 1 = Len(log)
               /\ log[i + 1].ev = "close" /\ log[i + 1].conn = log[i].conn
  /\ \A i, j \in 1..Len(log) :
       (log[i].sub = log[j].sub /\ log[i].ev = log[j].ev) => i = j

\* C8 as stated: every connection moves along Connected -> (Encrypted) ->
\* Bound -> SearchIssued -> Closed, leaving the chain for Closed only on a
\* failure; a search is issued only after a successful service-account
\* bind, a failure is followed by the close alone, and nothing is retried.
C8_ConnectionChain ==
  /\ [][\A c \in Calls : ConnStep(c, ClosedAtEnd)]_vars
  /\ [](\A c \in Calls : NoRetry(call[c].log))

\* C8, amended: the same, except that validatePassword's connection, on
\* which no search is issued, goes from Bound to Closed after a successful
\* bind as the user.
C8_ConnectionStateMachine ==
  /\ [][\A c \in Calls : ConnStep(c, ClosedAtItsEnd)]_vars
  /\ [](\A c \in Calls : NoRetry(call[c].log))

\* With StartTLS configured, a connection has gone through Encrypted and
\* Bound and a search has been issued on it.
C8_Witness ==
  /\ p.StartTLS
  /\ \E c \in Calls :
       /\ call[c].l # 0
       /\ call[c].conns[call[c].l] = "SearchIssued"
       /\ call[c].sub = "getGroups"

\* ---- C9
\* When getGroups returns after its search was answered, it returns no
\* error and one name per entry of the answer, the entry's group-name
\* attribute, the answer being the group entries the user is a member of.
OneNamePerEntry(cl) ==
  (cl.sub = "getGroups" /\ cl.pc = "return" /\ Searched(cl)) =>
    /\ cl.err = NoErr
    /\ Len(cl.groups) = Len(cl.sr)
    /\ \A i \in 1..Len(cl.sr) : cl.groups[i] = GroupNameOf(cl.sr[i])
    /\ {cl.sr[i] : i \in 1..Len(cl.sr)} = cl.found
    /\ Len(cl.sr) = Cardinality(cl.found)

\* The group search of the call was answered with no entry.
NoGroupFound(log) ==
  Indices(log, LAMBDA e : IsSearchOK("getGroups", e) /\ e.n = 0) # {}

\* C9 as stated: getGroups returns one name per matched entry, and after a
\* group search that matched nothing Authenticate and Refresh succeed, with
\* claims that carry no group.
C9_NoGroupsThenSuccess ==
  \A c \in Calls :
    /\ OneNamePerEntry(call[c])
    /\ (Finished(c) /\ NoGroupFound(call[c].log)) =>
         (Succeeded(call[c].result) /\ call[c].result.claims.groups = <<>>)

\* C9, amended: getGroups returns one name per matched entry; a group search
\* that matched nothing is no error: the call goes on to the claims builder
\* and, when jwt.NewClaims succeeds, Authenticate and Refresh succeed with
\* claims that carry no group.
C9_NoGroupsIsNoError ==
  \A c \in Calls :
    /\ OneNamePerEntry(call[c])
    /\ (call[c].sub = "getGroups" /\ call[c].pc = "return"
          /\ Searched(call[c]) /\ Len(call[c].sr) = 0) =>
         (call[c].groups = <<>> /\ call[c].err = NoErr)
    /\ (Finished(c) /\ NoGroupFound(call[c].log)) =>
         /\ call[c].fail.sub \in {"none", "claims"}
         /\ BuiltClaims(call[c].log) =>
              (Succeeded(call[c].result)
                 /\ call[c].result.claims.groups = <<>>)

\* Authenticate has succeeded for a user who is in no group.
C9_Witness ==
  \E c \in Calls :
    /\ call[c].op = "Authenticate" /\ Finished(c)
    /\ NoGroupFound(call[c].log)
    /\ Succeeded(call[c].result)
    /\ call[c].result.claims.groups = <<>>

\* ---- C10
\* C10: the groups of the claims that Refresh returns are the names of the
\* group entries the user was a member of when Refresh's group search was
\* answered, one name per entry, whatever groups the presented claims
\* carried.
C10_RefreshReadsMembership ==
  \A c \in Calls :
    (call[c].op = "Refresh" /\ Finished(c) /\ ~call[c].result.claims.isNil)
      => call[c].result.claims.groups
           \in {GroupNames(q) : q \in Perms(call[c].found)}

\* Refresh, presented with claims of stale groups after an Authenticate of
\* the same user, has returned claims with the directory's groups.
C10_Witness ==
  \E c \in Calls :
    /\ call[c].op = "Refresh" /\ Finished(c) /\ Succeeded(call[c].result)
    /\ call[c].presented = <<"stale">>
    /\ Len(call[c].result.claims.groups) >= 1
    /\ prev.op = "Authenticate" /\ prev.saw.claims
    /\ prev.username = call[c].username

\* ---- C11
\* The provider identity a provider's Name() returns.
NameOf(provider) == IF provider = Type THEN "ldap" ELSE "allowall"

\* C11: whichever of the two providers was called, and whether through
\* Authenticate or Refresh, claims that are returned carry the name of the
\* provider that issued them as their provider id and the username of the
\* call (for Refresh: the user id of the presented claims) as their user id.
C11_ClaimsNameTheirProvider ==
  \A c \in Calls :
    (Finished(c) /\ ~call[c].result.claims.isNil) =>
      /\ call[c].result.claims.providerID = NameOf(call[c].provider)
      /\ call[c].result.claims.userID = call[c].username

\* The allow-all provider has refreshed the claims of bob, after a call
\* that was given the password pw2 had returned claims too.
C11_Witness ==
  \E c \in Calls :
    /\ Finished(c) /\ call[c].provider = AllowAllType
    /\ call[c].op = "Refresh" /\ call[c].username = bob
    /\ ~call[c].result.claims.isNil
    /\ prev.saw.claims /\ prev.fail = NoFail /\ prev.op = "Authenticate"
    /\ prev.password = "pw2"

\* ---- C12
\* What the allow-all provider issues for a username.
AllowAllIssued(cl) ==
  /\ ~cl.result.claims.isNil
  /\ cl.result.claims.username = cl.username
  /\ cl.result.claims.groups = <<"cluster-admins">>
  /\ cl.result.claims.providerID = "allowall"
  /\ cl.result.claims.userID = cl.username

\* C12 as stated: every Authenticate and every Refresh of the allow-all
\* provider succeeds, whatever the username and the password, with claims
\* of the fixed group "cluster-admins" and the provider id "allowall".
C12_AllowAllAlwaysSucceeds ==
  \A c \in Calls :
    (Finished(c) /\ call[c].provider = AllowAllType) =>
      Succeeded(call[c].result) /\ AllowAllIssued(call[c])

\* C12, amended: a call of the allow-all provider sends nothing to a
\* directory, its only step is the creation of the claims; whenever that
\* creation succeeds the call succeeds, for every username and password,
\* with claims made of the username alone: the fixed group
\* "cluster-admins" and the provider id "allowall".
C12_AllowAllSucceedsWhenClaimsAreCreated ==
  \A c \in Calls :
    (Finished(c) /\ call[c].provider = AllowAllType) =>
      /\ Len(call[c].log) = 1
      /\ call[c].log[1].ev = "NewClaims"
      /\ call[c].conns = <<>>
      /\ call[c].log[1].err = NoErr =>
            Succeeded(call[c].result) /\ AllowAllIssued(call[c])

\* The allow-all provider has let bob in with the password pw2, after bob
\* was let in with the password pw1 (the directory holds two entries of
\* bob, so that its provider lets bob in with neither).
C12_Witness ==
  \E c \in Calls :
    /\ Finished(c) /\ call[c].provider = AllowAllType
    /\ call[c].op = "Authenticate" /\ call[c].username = bob
    /\ call[c].password = "pw2"
    /\ Succeeded(call[c].result) /\ AllowAllIssued(call[c])
    /\ prev.op = "Authenticate" /\ prev.username = bob
    /\ prev.password = "pw1" /\ prev.saw.claims /\ prev.saw.err = NoErr

\* ---- C13
\* The answer of jwt.NewClaims to the claims builder of a call, when the
\* call got that far.
ClaimsBuilt(cl) == Indices(cl.log, LAMBDA e : e.ev = "NewClaims")

\* C13: the claims builder of either provider never issues disabled
\* claims, succeeds whenever the creation of the claims succeeds, and when
\* that creation fails the call returns its error as an error result: it
\* does not panic and it reports no other error.
C13_ClaimsErrorIsPropagated ==
  \A c \in Calls :
    Finished(c) =>
      /\ ~call[c].result.claims.isNil => ~call[c].result.claims.disabled
      /\ \A i \in ClaimsBuilt(call[c]) :
            IF call[c].log[i].err = NoErr
              THEN Succeeded(call[c].result)
              ELSE /\ ~call[c].result.panic
                   /\ call[c].result.err = call[c].log[i].err

\* ---- C14
\* The cases of TestRuleResourceMatches and of TestRuleVerbMatches: the
\* rule's list, the requested string, and the wanted answer.
TestRuleResourceMatches ==
  {<<<<>>, "checks", FALSE>>,
   <<<<ResourceAll>>, "checks", TRUE>>,
   <<<<"checks">>, "events", FALSE>>,
   <<<<"checks", "events">>, "events", TRUE>>}
TestRuleVerbMatches ==
  {<<<<>>, "get", FALSE>>,
   <<<<VerbAll>>, "get", TRUE>>,
   <<<<"create">>, "get", FALSE>>,
   <<<<"create", "get">>, "get", TRUE>>}

\* C14: ResourceMatches answers true exactly when the rule's resources
\* contain the wildcard or the requested resource, VerbMatches does the
\* same on the rule's verbs, and an empty list matches nothing; the
\* functions answer the cases of the repository's tests as wanted.
C14_WildcardOrExactElseDeny ==
  /\ rbac.fn \in {"ResourceMatches", "VerbMatches"} =>
       /\ rbac.out = (\E i \in 1..Len(rbac.in) :
                        rbac.in[i] = "*" \/ rbac.in[i] = rbac.requested)
       /\ rbac.in = <<>> => rbac.out = FALSE
  /\ rbac.fn # "none" =>
       /\ \A t \in TestRuleResourceMatches :
            ResourceMatches(Rule(t[1], <<>>, <<>>), t[2]) = t[3]
       /\ \A t \in TestRuleVerbMatches :
            VerbMatches(Rule(<<>>, <<>>, t[1]), t[2]) = t[3]

\* A rule whose second resource is the wildcard was asked for a resource
\* it does not name, and matched.
C14_Witness ==
  /\ rbac.fn = "ResourceMatches"
  /\ rbac.in = <<"checks", "*">> /\ rbac.requested = "events"
  /\ rbac.out = TRUE

\* ---- C15
\* The cases of TestRuleResourceNameMatches: the rule's names, the
\* requested name, and the wanted answer.
TestRuleResourceNameMatches ==
  {<<<<>>, "checks", TRUE>>,
   <<<<"foo">>, "", FALSE>>,
   <<<<"foo">>, "bar", FALSE>>,
   <<<<"foo", "bar">>, "bar", TRUE>>}

\* C15: a rule without resource names matches every requested name, the
\* empty one included; a rule with resource names matches exactly the
\* names it lists; the function answers the cases of the repository's
\* test as wanted.
C15_NoNamesMatchAnyName ==
  rbac.fn = "ResourceNameMatches" =>
    /\ rbac.in = <<>> => rbac.out = TRUE
    /\ rbac.in # <<>> =>
         rbac.out = (\E i \in 1..Len(rbac.in) : rbac.in[i] = rbac.requested)
    /\ \A t \in TestRuleResourceNameMatches :
         ResourceNameMatches(Rule(<<>>, t[1], <<>>), t[2]) = t[3]

\* A rule without resource names was asked for the empty name, and
\* matched.
C15_Witness ==
  /\ rbac.fn = "ResourceNameMatches"
  /\ rbac.in = <<>> /\ rbac.requested = "" /\ rbac.out = TRUE

\* ---- C16
\* The cases of Test_validateVerbs: the verbs, and whether an error is
\* wanted.
Test_validateVerbs ==
  {<<<<VerbAll>>, FALSE>>,
   <<<<"get", "list">>, FALSE>>,
   <<<<"get", "put">>, TRUE>>,
   <<<<"get", "list", "create", "update", "delete">>, FALSE>>}

\* C16: validateVerbs accepts a list exactly when each of its verbs is the
\* wildcard or one of get, list, create, update, delete: the wildcard may
\* stand beside explicit verbs, which are validated all the same; the
\* function answers the cases of the repository's test as wanted.
C16_EveryVerbIsValidated ==
  rbac.fn = "validateVerbs" =>
    /\ (rbac.out = NoErr) =
         (\A i \in 1..Len(rbac.in) :
            rbac.in[i] \in {"*", "get", "list", "create", "update",
                            "delete"})
    /\ \A t \in Test_validateVerbs : (validateVerbs(t[1]) # NoErr) = t[2]

\* A list of the wildcard followed by a verb that is not allowed was
\* rejected.
C16_Witness ==
  /\ rbac.fn = "validateVerbs"
  /\ rbac.in = <<"*", "put">> /\ rbac.out = ErrInvalidVerb

\* ---- C17
\* The strings of TestValidateSubjects, character by character.
StrUser == <<"u", "s", "e", "r">>
StrEric == <<"e", "r", "i", "c">>
StrBadName == <<"^", "*", "^", "*", "#", "$", "^", "&", "#", "^">>
StrBadType == <<"#", "$", "*", "@", "$", "*", "@", "^", "#", "$", "*">>

\* The cases of TestValidateSubjects: the subjects, and whether an error
\* is wanted.
TestValidateSubjects ==
  {<<<<[Type |-> StrUser, Name |-> StrEric]>>, FALSE>>,
   <<<<[Type |-> <<>>, Name |-> StrEric]>>, TRUE>>,
   <<<<[Type |-> StrUser, Name |-> <<>>]>>, TRUE>>,
   <<<<[Type |-> StrUser, Name |-> StrBadName]>>, TRUE>>,
   <<<<[Type |-> StrBadType, Name |-> StrEric]>>, TRUE>>,
   <<<<[Type |-> StrUser, Name |-> StrEric],
       [Type |-> StrUser, Name |-> <<>>]>>, TRUE>>}

\* C17: ValidateSubjects accepts a list exactly when each of its subjects
\* has a type and a name that are not empty and are made of allowed
\* characters only, so that one invalid subject invalidates the list; the
\* function answers the cases of the repository's test as wanted.
C17_OneInvalidSubjectInvalidatesAll ==
  rbac.fn = "ValidateSubjects" =>
    /\ (rbac.out = NoErr) =
         (\A i \in 1..Len(rbac.in) :
            /\ rbac.in[i].Type # <<>> /\ rbac.in[i].Name # <<>>
            /\ \A k \in 1..Len(rbac.in[i].Type) :
                 rbac.in[i].Type[k] \in NameChars
            /\ \A k \in 1..Len(rbac.in[i].Name) :
                 rbac.in[i].Name[k] \in NameChars)
    /\ \A t \in TestValidateSubjects :
         (ValidateSubjects(t[1]) # NoErr) = t[2]

\* A valid subject followed by one whose type has a character that is not
\* allowed was rejected.
C17_Witness ==
  /\ rbac.fn = "ValidateSubjects"
  /\ rbac.in = <<[Type |-> <<"e">>, Name |-> <<"e">>],
                 [Type |-> <<"e", "^">>, Name |-> <<"e">>]>>
  /\ rbac.out = ErrInvalidSubject

\* ---- C18
\* The cases of Test_split, character by character: the list, and the
\* wanted list.
Test_split ==
  {<<<<<<"*">>>>, <<<<"*">>>>>>,
   <<<<<<"g", "e", "t", ",", "l", "i", "s", "t", ",", "c", "r", "e", "a", "t", "e">>>>,
     <<<<"g", "e", "t">>, <<"l", "i", "s", "t">>, <<"c", "r", "e", "a", "t", "e">>>>>>}

\* The entries of list with a comma between each two of them.
RECURSIVE JoinComma(_)
JoinComma(list) ==
  IF list = <<>> THEN <<>>
  ELSE IF Len(list) = 1 THEN list[1]
  ELSE list[1] \o <<",">> \o JoinComma(Tail(list))

HasComma(s) == \E i \in 1..Len(s) : s[i] = ","

DialsUpTo(log, i) ==
  Cardinality({j \in 1..i : log[j].ev = "dial" /\ log[j].err = NoErr})

\* Every request in the log of a call went out on the connection that the
\* call itself dialled last (none for a failed dial and for NewClaims), and
\* the call holds as many connections as it dialled.
OwnConnections(cl) ==
  /\ Len(cl.conns) = DialsUpTo(cl.log, Len(cl.log))
  /\ \A i \in 1..Len(cl.log) :
       cl.log[i].conn =
         IF \/ cl.log[i].ev = "NewClaims"
            \/ cl.log[i].ev = "dial" /\ cl.log[i].err # NoErr
           THEN 0 ELSE DialsUpTo(cl.log, i)

\* The outcome of a call that runs alone and is given the answers that
\* are in the log of cl.
SoloOutcome(cl) ==
  IF Indices(cl.log, LAMBDA e : e.ev = "NewClaims" /\ e.err # NoErr) # {}
    THEN [claims |-> NilClaims, err |-> NoErr, panic |-> TRUE]
  ELSE IF FirstErr(cl.log) # NoErr
    THEN [claims |-> NilClaims, err |-> FirstErr(cl.log), panic |-> FALSE]
  ELSE IF Indices(cl.log,
                  LAMBDA e : IsSearchOK("getDN", e) /\ e.n # 1) # {}
    THEN [claims |-> NilClaims, err |-> ErrUser, panic |-> FALSE]
  ELSE [claims |-> [isNil |-> FALSE, username |-> cl.username,
                    groups |-> cl.groups, disabled |-> FALSE,
                    providerID |-> "ldap", userID |-> cl.username],
        err |-> NoErr, panic |-> FALSE]

\* The log of a call reads as the log of a call that runs alone, and a
\* finished call has the outcome of that call.
AsAlone(cl) ==
  /\ OwnConnections(cl)
  /\ NoRetry(cl.log)
  /\ IsPrefix(SubTrace(cl.log),
              IF cl.op = "Authenticate" THEN AuthOrder ELSE RefreshOrder)
  /\ {cl.groups[i] : i \in 1..Len(cl.groups)}
       = {GroupNameOf(g) : g \in cl.found}
  /\ cl.pc = "done" =>
       /\ cl.result = SoloOutcome(cl)
       /\ \A i \in 1..Len(cl.conns) : cl.conns[i] = "Closed"

\* A step is a step of one call, or of the directory: it leaves the state
\* of every other call, and the provider's configuration, as they were.
StepOfOneCall ==
  /\ p' = p
  /\ \E c \in DOMAIN call :
       \A d \in DOMAIN call \ {c} : call'[d] = call[d]

\* C19: however the steps of two concurrent calls of the same provider
\* interleave, each connection is dialled, used and closed by one call
\* only, no step of a call changes what the other call or the provider
\* holds, and each call ends as it would have ended alone, given the same
\* answers of the directory.
C19_ConcurrentCallsAreIndependent ==
  /\ [](\A c \in DOMAIN call : AsAlone(call[c]))
  /\ [][StepOfOneCall]_vars

\* The first call has returned claims for alice over three connections of
\* its own, while the second call, holds an open
\* connection of its own in validatePassword.
C19_Witness ==
  /\ DOMAIN call = ConcCalls
  /\ Finished(1) /\ Succeeded(call[1].result)
  /\ Len(call[1].conns) = 3 /\ call[1].groups # <<>>
  /\ call[2].sub = "validatePassword" /\ call[2].l = 2
  /\ call[2].conns = <<"Closed", "Bound">>

\* ---- C20
\* C20: whatever the username, the characters '*', '(' and ')' of a search
\* filter included, Authenticate returns claims only if the one entry that
\* getDN resolved carries that very username and the directory accepted
\* the password for that entry, so that the username of the claims is the
\* username of a user of the directory.
C20_ClaimsNameADirectoryUser ==
  \A c \in Calls :
    (Finished(c) /\ call[c].op = "Authenticate"
       /\ ~call[c].result.claims.isNil) =>
      /\ call[c].dn \in AllDNs
      /\ Uid(call[c].dn) = call[c].username
      /\ VerifiedPassword(call[c].log)
      /\ \E d \in AllDNs : Uid(d) = call[c].result.claims.username

====
